---- MODULE Spec2Model ----
(***************************************************************************)
(* Shift-roster engine of bartolo78/escala: one call of generate_schedule  *)
(* (scheduling_engine.py) with the constraint builders                     *)
(* (model_constraints.py), the stage costs (model_objectives.py) and the   *)
(* solve/extract pipeline (schedule_pipeline.py).  Further specifications  *)
(* cover the history store (update_history, load_history), the parser of   *)
(* unavailability entries and the three-day-weekend cost on full weeks.    *)
(*                                                                         *)
(* Time is counted in hours from 00:00 of the window's first Monday; a     *)
(* date is its day number (day 0 = that Monday, negative = before the      *)
(* window).  The CpModel object is represented by the constraints it       *)
(* holds (cons) and the CP-SAT solver by its contract: it returns any      *)
(* assignment that satisfies every constraint of the model.                *)
(***************************************************************************)
EXTENDS Integers, Sequences, FiniteSets, TLC

\* ------------------------------------------------------------------ bounds
\* Number of ISO weeks in the scheduling window.
NumWeeks == 2
\* The modelled ISO week keeps its first WeekLen days (Monday, Tuesday, ...).
WeekLen == 2

\* --------------------------------------------------------------- constants
MIN_REST_HOURS == 24
MAX_CHECK_HOURS == 48

None == "None"

SHIFT_TYPES == <<"M1", "M2", "N">>

SHIFTS ==
  [t \in {"M1", "M2", "N"} |->
     CASE t = "M1" -> [start_hour |-> 8,  end_hour |-> 20, dur |-> 12, night |-> FALSE]
       [] t = "M2" -> [start_hour |-> 8,  end_hour |-> 23, dur |-> 15, night |-> FALSE]
       [] t = "N"  -> [start_hour |-> 20, end_hour |-> 32, dur |-> 12, night |-> TRUE]]

\* The roster: worker w has name w and id w; workers 1 and 2 have an 18 h
\* weekly load, the others 12 h.
Workers == 1..6

weekly_load(w) == IF w <= 2 THEN 18 ELSE 12

\* ---------------------------------------------------------------- calendar
\* setup_holidays_and_days: the window runs from the Monday of the first ISO
\* week of the month to the last day of its last ISO week.
all_days == [i \in 1..(NumWeeks * WeekLen) |-> i - 1]

\* date.isocalendar()[:2]
IsoWeek(d) == d \div WeekLen

\* date.weekday()
weekday(d) == d % WeekLen

\* d.month == month: the target month starts on the window's second day.
InMonth(d) == d >= 1 /\ d <= NumWeeks * WeekLen - 1

SeqToSet(q) == {q[i] : i \in 1..Len(q)}

\* ---------------------------------------------------------------- shifts
\* create_shifts: one instance per (day, shift type), in day order.
create_shifts(days) ==
  [k \in 1..(3 * Len(days)) |->
     LET day == days[((k - 1) \div 3) + 1]
         st  == SHIFT_TYPES[((k - 1) % 3) + 1]
     IN [type  |-> st,
         start |-> 24 * day + SHIFTS[st].start_hour,
         end   |-> 24 * day + SHIFTS[st].end_hour,
         dur   |-> SHIFTS[st].dur,
         night |-> SHIFTS[st].night,
         day   |-> day]]

\* group_shifts_by_day
shifts_by_day(shifts, d) == {s \in 1..Len(shifts) : shifts[s].day = d}

\* setup_iso_weeks: the week keys and, per key, the days and shifts.
iso_week_keys(days) == {IsoWeek(d) : d \in SeqToSet(days)}

week_days(days, key) == {d \in SeqToSet(days) : IsoWeek(d) = key}

week_shifts(shifts, key) == {s \in 1..Len(shifts) : IsoWeek(shifts[s].day) = key}

\* weekdays_for_distribution: Monday to Friday, holidays included.
weekdays_for_distribution(days, key) == {d \in week_days(days, key) : weekday(d) < 5}

\* ---------------------------------------------------------------- history
\* history[worker]["YYYY-MM"] -> list of {date, shift, dur}, held as a set
\* of records [worker, date, shift]; update_history keeps at most one entry
\* per (worker, date).

\* HistoryView.scheduled_iso_weeks
scheduled_iso_weeks(history) == {IsoWeek(h.date) : h \in history}

\* HistoryView.fixed_shift_for
fixed_shift_for(history, w, d) ==
  IF \E h \in history : h.worker = w /\ h.date = d
  THEN (CHOOSE h \in history : h.worker = w /\ h.date = d).shift
  ELSE None

\* -------------------------------------------------- the constraint model
\* The constraints a CpModel holds, by kind:
\*   exactly_one  : shifts s with AddExactlyOne(assigned[w][s] for w)
\*   at_most_one  : <<w, S>> with Add(sum(assigned[w][s] for s in S) <= 1)
\*   at_least_one : <<w, S>> with Add(sum(assigned[w][s] for s in S) >= 1)
\*   eq0, eq1     : <<w, s>> with Add(assigned[w][s] == 0) or (== 1)
\*   not_both     : <<w, i, j>> with AddBoolOr([not assigned[w][i], not assigned[w][j]])
EmptyCons ==
  [exactly_one |-> {}, at_most_one |-> {}, at_least_one |-> {},
   eq0 |-> {}, eq1 |-> {}, not_both |-> {}]

Merge(c1, c2) ==
  [exactly_one  |-> c1.exactly_one \cup c2.exactly_one,
   at_most_one  |-> c1.at_most_one \cup c2.at_most_one,
   at_least_one |-> c1.at_least_one \cup c2.at_least_one,
   eq0          |-> c1.eq0 \cup c2.eq0,
   eq1          |-> c1.eq1 \cup c2.eq1,
   not_both     |-> c1.not_both \cup c2.not_both]

\* Variant of add_basic_constraints without the night ban.
NightsForAll(days, shifts, can_night) ==
  [EmptyCons EXCEPT
     !.exactly_one = 1..Len(shifts),
     !.at_most_one = {<<w, shifts_by_day(shifts, d)>> : w \in Workers, d \in SeqToSet(days)}]

\* add_basic_constraints
add_basic_constraints(days, shifts, can_night) ==
  [EmptyCons EXCEPT
     !.exactly_one = 1..Len(shifts),
     !.at_most_one = {<<w, shifts_by_day(shifts, d)>> : w \in Workers, d \in SeqToSet(days)},
     !.eq0 = {<<w, s>> : w \in {x \in Workers : ~can_night[x]},
                         s \in {t \in 1..Len(shifts) : shifts[t].night}}]

\* add_unavail_req_constraints: unav and req are sets of <<w, d, sh>> with
\* sh a shift type or None (the whole day).
add_unavail_req_constraints(days, shifts, unav_parsed, req_parsed) ==
  [EmptyCons EXCEPT
     !.eq0 = {<<w, s>> \in Workers \X (1..Len(shifts)) :
                \E u \in unav_parsed :
                   /\ u[1] = w
                   /\ shifts[s].day = u[2]
                   /\ (u[3] = None \/ shifts[s].type = u[3])},
     !.at_least_one = {<<r[1], shifts_by_day(shifts, r[2])>> :
                         r \in {x \in req_parsed : x[3] = None /\ x[2] \in SeqToSet(days)}},
     !.eq1 = {<<w, s>> \in Workers \X (1..Len(shifts)) :
                \E r \in req_parsed :
                   /\ r[1] = w
                   /\ r[3] # None
                   /\ shifts[s].day = r[2]
                   /\ shifts[s].type = r[3]}]

\* sorted(range(num_shifts), key=start): position of shift i in the stable sort.
SortPos(shifts, i) ==
  1 + Cardinality({j \in 1..Len(shifts) :
                     \/ shifts[j].start < shifts[i].start
                     \/ (shifts[j].start = shifts[i].start /\ j < i)})

sorted_indices(shifts) ==
  [p \in 1..Len(shifts) |-> CHOOSE i \in 1..Len(shifts) : SortPos(shifts, i) = p]

Max2(a, b) == IF a >= b THEN a ELSE b
Min2(a, b) == IF a <= b THEN a ELSE b

\* Variant of RestConflict that asks for three hours less rest.
RestConflictShort(si, sj) ==
  \/ Max2(si.start, sj.start) < Min2(si.end, sj.end)
  \/ (sj.start >= si.end /\ sj.start - si.end < MIN_REST_HOURS - 3)
  \/ (sj.start < si.end /\ si.start >= sj.end /\ si.start - sj.end < MIN_REST_HOURS - 3)

\* The test the loop body applies to a pair it reaches: overlap, or a gap
\* below MIN_REST_HOURS in either order.
RestConflict(si, sj) ==
  \/ Max2(si.start, sj.start) < Min2(si.end, sj.end)
  \/ (sj.start >= si.end /\ sj.start - si.end < MIN_REST_HOURS)
  \/ (sj.start < si.end /\ si.start >= sj.end /\ si.start - sj.end < MIN_REST_HOURS)

\* Variant of SweepReaches whose inner loop stops at the first shift that
\* starts half of MIN_REST_HOURS or more after shift i ended.
SweepStopsEarly(shifts, srt, p, q) ==
  \A r \in (p + 1)..q : 2 * (shifts[srt[r]].start - shifts[srt[p]].end) < MIN_REST_HOURS

\* The inner loop reaches position q from p unless an earlier j (or q
\* itself) started MAX_CHECK_HOURS or more after shift i ended (break).
SweepReaches(shifts, srt, p, q) ==
  \A r \in (p + 1)..q : shifts[srt[r]].start - shifts[srt[p]].end < MAX_CHECK_HOURS

\* add_24h_interval_constraints
add_24h_interval_constraints(shifts) ==
  LET srt == sorted_indices(shifts)
      n   == Len(shifts)
      pairs == {pq \in (1..n) \X (1..n) :
                  /\ pq[1] < pq[2]
                  /\ SweepReaches(shifts, srt, pq[1], pq[2])
                  /\ RestConflict(shifts[srt[pq[1]]], shifts[srt[pq[2]]])}
  IN [EmptyCons EXCEPT
        !.not_both = {<<w, srt[pq[1]], srt[pq[2]]>> : w \in Workers, pq \in pairs}]

\* Variant of add_cross_week_interval_constraints that also forbids a shift
\* starting exactly MIN_REST_HOURS after the historical shift's end.
CrossWeekInclusive(shifts, days, history) ==
  [EmptyCons EXCEPT
     !.eq0 = {<<w, s>> \in Workers \X (1..Len(shifts)) :
                \E hist_day \in {days[1] - 1, days[1] - 2} :
                   /\ fixed_shift_for(history, w, hist_day) # None
                   /\ shifts[s].start - (24 * hist_day
                        + SHIFTS[fixed_shift_for(history, w, hist_day)].end_hour)
                      <= MIN_REST_HOURS}]

\* add_cross_week_interval_constraints: the variables forced to 0.
add_cross_week_interval_constraints(shifts, days, history) ==
  LET first_day == days[1]
      early_window_cutoff == 24 * (first_day + 2)
      days_to_check == {first_day - 1, first_day - 2}
      Blocks(w, hist_day, s) ==
        LET hist_shift_type == fixed_shift_for(history, w, hist_day)
            hist_end == 24 * hist_day + SHIFTS[hist_shift_type].end_hour
        IN /\ hist_shift_type # None
           /\ hist_shift_type \in DOMAIN SHIFTS
           /\ shifts[s].start < early_window_cutoff
           /\ \/ shifts[s].start <= hist_end
              \/ shifts[s].start - hist_end < MIN_REST_HOURS
  IN [EmptyCons EXCEPT
        !.eq0 = {<<w, s>> \in Workers \X (1..Len(shifts)) :
                   \E hist_day \in days_to_check : Blocks(w, hist_day, s)}]

\* The workers add_weekly_participation_constraints finds eligible in a week.
relevant(days, unav_parsed, key) ==
  {w \in Workers :
     \E wd \in weekdays_for_distribution(days, key) : <<w, wd, None>> \notin unav_parsed}

\* Variant of add_weekly_participation_constraints that adds nothing.
NoParticipation(days, shifts, unav_parsed) == EmptyCons

\* add_weekly_participation_constraints
add_weekly_participation_constraints(days, shifts, unav_parsed) ==
  [EmptyCons EXCEPT
     !.at_least_one = UNION {{<<w, week_shifts(shifts, key)>> :
                                w \in relevant(days, unav_parsed, key)} :
                             key \in iso_week_keys(days)}]

\* fix_previous_assignments
fix_previous_assignments(days, shifts, history) ==
  [EmptyCons EXCEPT
     !.eq1 = {<<w, s>> \in Workers \X (1..Len(shifts)) :
                /\ fixed_shift_for(history, w, shifts[s].day) # None
                /\ shifts[s].type = fixed_shift_for(history, w, shifts[s].day)}]

\* ------------------------------------------------------------ the solver
\* An assignment is the set of <<w, s>> with assigned[w][s] = 1.
RECURSIVE Extend(_, _, _, _)
Extend(cons, P, s, n) ==
  IF s > n THEN P
  ELSE LET choices == IF s \in cons.exactly_one
                      THEN {{w} : w \in Workers}
                      ELSE SUBSET Workers
           ok(a, W) ==
             \A w \in W :
                /\ <<w, s>> \notin cons.eq0
                /\ \A t \in 1..(s - 1) :
                     <<w, t>> \in a =>
                       /\ <<w, t, s>> \notin cons.not_both
                       /\ <<w, s, t>> \notin cons.not_both
                       /\ \A m \in cons.at_most_one :
                            ~(m[1] = w /\ t \in m[2] /\ s \in m[2])
       IN Extend(cons,
                 UNION {{a \cup {<<w, s>> : w \in W} :
                           W \in {X \in choices : ok(a, X)}} : a \in P},
                 s + 1, n)

\* The assignments that satisfy every constraint of the model.
Solutions(cons, n) ==
  {a \in Extend(cons, {{}}, 1, n) :
     /\ cons.eq1 \subseteq a
     /\ \A m \in cons.at_least_one : \E s \in m[2] : <<m[1], s>> \in a}

\* ------------------------------------------------------- stage objectives
RECURSIVE Sum(_, _)
\* sum(f[x] for x in S)
Sum(f, S) ==
  IF S = {} THEN 0
  ELSE LET x == CHOOSE y \in S : TRUE IN f[x] + Sum(f, S \ {x})

Abs(x) == IF x < 0 THEN -x ELSE x

MaxOf(S) == CHOOSE x \in S : \A y \in S : y <= x
MinOf(S) == CHOOSE x \in S : \A y \in S : x <= y

\* sum(assigned[w][s] for s in S) in the assignment a
Count(a, w, S) == Cardinality({s \in S : <<w, s>> \in a})

\* The modelled months have no holidays.
holiday_set == {}

is_three_day_weekend(days, key) ==
  \E day \in week_days(days, key) : day \in holiday_set /\ weekday(day) \in {0, 4}

\* build_saturday_preference_cost: the tier of worker w in week key.
sat_pref_tier(a, days, shifts, w, key) ==
  LET ws == week_shifts(shifts, key)
      Cat(lo, hi, night) ==
        Count(a, w, {s \in ws : /\ weekday(shifts[s].day) >= lo
                                /\ weekday(shifts[s].day) <= hi
                                /\ shifts[s].night = night}) >= 1
      has_weekday_day   == Cat(0, 4, FALSE)
      has_weekday_night == Cat(0, 4, TRUE)
      has_sat_day       == Cat(5, 5, FALSE)
      has_sat_night     == Cat(5, 5, TRUE)
      has_sun_day       == Cat(6, 6, FALSE)
      has_sun_night     == Cat(6, 6, TRUE)
      has_weekend == has_sat_day \/ has_sat_night \/ has_sun_day \/ has_sun_night
  IN IF is_three_day_weekend(days, key)
     THEN IF ~has_weekday_day /\ ~has_weekend /\ has_weekday_night THEN 1 ELSE 0
     ELSE CASE has_weekday_day   -> 0
            [] has_weekday_night -> 1
            [] has_sat_day       -> 2
            [] has_sat_night     -> 3
            [] has_sun_day       -> 4
            [] has_sun_night     -> 5
            [] OTHER             -> 0

build_saturday_preference_cost(a, days, shifts, unav_parsed) ==
  LET keys == iso_week_keys(days)
      elig == {kw \in keys \X Workers :
                 \E wd \in {d \in week_days(days, kw[1]) : weekday(d) < 5} :
                    <<kw[2], wd, None>> \notin unav_parsed}
  IN Sum([kw \in elig |-> sat_pref_tier(a, days, shifts, kw[2], kw[1])], elig)

\* build_three_day_weekend_unique_workers_cost: the three-day periods found
\* in the days wd of one ISO week, for the holidays hol, in a calendar whose
\* weeks have week_len days (day.weekday() is d % week_len).
three_day_periods_in(wd, hol, week_len) ==
  {{day, day + 1, day + 2} :
     day \in {d \in wd \cap hol :
                d % week_len = 4 /\ d + 1 \in wd /\ d + 2 \in wd}}
  \cup
  {{day - 2, day - 1, day} :
     day \in {d \in wd \cap hol :
                d % week_len = 0 /\ d - 2 \in wd /\ d - 1 \in wd}}

three_day_periods(days, key) ==
  three_day_periods_in(week_days(days, key), holiday_set, WeekLen)

\* One has_shift_in_period indicator per period and worker.
three_day_unique_workers_cost(a, shifts, periods) ==
  Sum([t \in periods \X Workers |->
         IF Count(a, t[2], {s \in 1..Len(shifts) : shifts[s].day \in t[1]}) >= 1
         THEN 1 ELSE 0],
      periods \X Workers)

build_three_day_weekend_unique_workers_cost(a, days, shifts) ==
  three_day_unique_workers_cost(
    a, shifts, UNION {three_day_periods(days, key) : key \in iso_week_keys(days)})

\* build_weekend_shift_limits_cost for the ISO weeks keys of a calendar whose
\* weeks have week_len days, with the holidays hol.
weekend_shift_limits_cost(a, shifts, keys, week_len, hol) ==
  LET week_shifts_of(key) == {s \in 1..Len(shifts) : shifts[s].day \div week_len = key}
      is_three_day(key) ==
        \E s \in week_shifts_of(key) :
           shifts[s].day \in hol /\ shifts[s].day % week_len \in {0, 4}
      terms == {kw \in keys \X Workers : ~is_three_day(kw[1])}
      OnDow(kw, dow) == {s \in week_shifts_of(kw[1]) : shifts[s].day % week_len = dow}
  IN Sum([kw \in terms |->
            IF Count(a, kw[2], OnDow(kw, 5)) >= 1 /\ Count(a, kw[2], OnDow(kw, 6)) >= 1
            THEN 1 ELSE 0], terms)

build_weekend_shift_limits_cost(a, days, shifts) ==
  weekend_shift_limits_cost(a, shifts, iso_week_keys(days), WeekLen, holiday_set)

\* build_consecutive_weekend_avoidance_cost for the ISO weeks keys of a
\* calendar whose weeks have week_len days and whose target month holds the
\* days month_days.
consecutive_weekend_cost(a, shifts, keys, week_len, month_days, history) ==
  LET week_shifts_of(key) == {s \in 1..Len(shifts) : shifts[s].day \div week_len = key}
      \* index of a week in sorted_keys, from 0
      pos(key) == Cardinality({k \in keys : k < key})
      history_has_weekend_in_month ==
        {h.worker : h \in {x \in history : x.date \in month_days /\ x.date % week_len >= 5}}
      has_weekend_week(w, key) ==
        Count(a, w, {s \in week_shifts_of(key) :
                       shifts[s].day % week_len >= 5 /\ shifts[s].day \in month_days}) >= 1
      prefix(w, key) ==
        \/ w \in history_has_weekend_in_month
        \/ \E k \in keys : k <= key /\ has_weekend_week(w, k)
      worked_prev(w, key) ==
        LET monday == key * week_len
        IN \E h \in history : h.worker = w /\ h.date \in {monday - 2, monday - 1}
      any_other_without(w, key) ==
        IF pos(key) = 0
        THEN \E o \in Workers \ {w} : o \notin history_has_weekend_in_month
        ELSE \E o \in Workers \ {w} :
               ~prefix(o, CHOOSE k \in keys : pos(k) = pos(key) - 1)
      terms == {kw \in keys \X Workers :
                  /\ \E s \in week_shifts_of(kw[1]) : shifts[s].day % week_len >= 5
                  /\ worked_prev(kw[2], kw[1])
                  /\ (pos(kw[1]) = 0 => any_other_without(kw[2], kw[1]))}
  IN Sum([kw \in terms |->
            IF has_weekend_week(kw[2], kw[1]) /\ any_other_without(kw[2], kw[1])
            THEN 1 ELSE 0], terms)

build_consecutive_weekend_avoidance_cost(a, days, shifts, history) ==
  consecutive_weekend_cost(a, shifts, iso_week_keys(days), WeekLen,
                           {d \in SeqToSet(all_days) : InMonth(d)}, history)

\* build_m2_priority_cost
build_m2_priority_cost(a, shifts) ==
  Cardinality({ws \in a : shifts[ws[2]].type = "M1" /\ weekly_load(ws[1]) = 18})

\* The pairs i < j of shifts one worker holds in the assignment a.
PairsOf(a, n) ==
  {wij \in Workers \X (1..n) \X (1..n) :
     wij[2] < wij[3] /\ <<wij[1], wij[2]>> \in a /\ <<wij[1], wij[3]>> \in a}

\* build_consec_shifts_48h_cost; CONSECUTIVE_SHIFT_PENALTY_RANGE = (24, 48)
build_consec_shifts_48h_cost(a, shifts) ==
  Cardinality({wij \in PairsOf(a, Len(shifts)) :
     LET si == shifts[wij[2]]
         sj == shifts[wij[3]]
         delta == Abs(IF sj.start > si.end THEN sj.start - si.end ELSE si.start - sj.end)
     IN /\ si.day # sj.day
        /\ ~(Max2(si.start, sj.start) < Min2(si.end, sj.end))
        /\ 24 <= delta
        /\ delta < 48})

\* build_night_shift_min_interval_cost; NIGHT_SHIFT_MIN_INTERVAL_HOURS = 48
build_night_shift_min_interval_cost(a, shifts) ==
  Cardinality({wij \in PairsOf(a, Len(shifts)) :
     /\ shifts[wij[2]].night
     /\ shifts[wij[3]].night
     /\ Abs(shifts[wij[3]].start - shifts[wij[2]].start) <= 48})

\* build_consecutive_night_shift_avoidance_cost;
\* NIGHT_SHIFT_CONSECUTIVE_MIN_HOURS = 96
build_consecutive_night_shift_avoidance_cost(a, shifts) ==
  Cardinality({wij \in PairsOf(a, Len(shifts)) :
     /\ shifts[wij[2]].night
     /\ shifts[wij[3]].night
     /\ Abs(shifts[wij[3]].day - shifts[wij[2]].day) = 1
     /\ Abs(shifts[wij[3]].start - shifts[wij[2]].start) < 96})

\* build_tiebreak_cost: the rank of worker w in the (id, name) order.
rank_by_index(w) == Cardinality({x \in Workers : x < w})

build_tiebreak_cost(a) == Sum([ws \in a |-> rank_by_index(ws[1])], a)

\* EQUITY_STATS with round(EQUITY_WEIGHTS[stat] * 10)
EQUITY_STATS ==
  <<"sun_holiday_m2", "sat_n", "sat_m2", "sun_holiday_n", "sun_holiday_m1", "sat_m1",
    "fri_night", "weekday_not_fri_n", "monday_day", "weekday_not_mon_day">>

weight_i(stat) ==
  CASE stat = "sun_holiday_m2"      -> 100000
    [] stat = "sat_n"               -> 95000
    [] stat = "sat_m2"              -> 92000
    [] stat = "sun_holiday_n"       -> 83000
    [] stat = "sun_holiday_m1"      -> 76000
    [] stat = "sat_m1"              -> 68000
    [] stat = "fri_night"           -> 10000
    [] stat = "weekday_not_fri_n"   -> 7000
    [] stat = "monday_day"          -> 3000
    [] stat = "weekday_not_mon_day" -> 500

\* Variant of InStat that also counts the night of a Saturday holiday as a
\* holiday night.
InStatHolidayNight(stat, type, wd, hol) ==
  LET night == type = "N"
      dayshift == type \in {"M1", "M2"}
      sun_or_hol(t) == type = t /\ (wd = 6 \/ (hol /\ wd < 5) \/ (hol /\ wd = 5))
  IN CASE stat = "sat_n"               -> wd = 5 /\ night
       [] stat = "sun_holiday_m2"      -> sun_or_hol("M2")
       [] stat = "sun_holiday_m1"      -> sun_or_hol("M1")
       [] stat = "sun_holiday_n"       -> sun_or_hol("N")
       [] stat = "sat_m2"              -> wd = 5 /\ type = "M2" /\ ~hol
       [] stat = "sat_m1"              -> wd = 5 /\ type = "M1" /\ ~hol
       [] stat = "fri_night"           -> wd = 4 /\ night /\ ~hol
       [] stat = "weekday_not_fri_n"   -> wd < 5 /\ wd # 4 /\ night /\ ~hol
       [] stat = "monday_day"          -> wd = 0 /\ dayshift /\ ~hol
       [] stat = "weekday_not_mon_day" -> wd < 5 /\ wd # 0 /\ dayshift /\ ~hol

\* define_stat_indices: does a shift of this type on this weekday fall in the bucket?
InStat(stat, type, wd, hol) ==
  LET night == type = "N"
      dayshift == type \in {"M1", "M2"}
      sun_or_hol(t) == type = t /\ (wd = 6 \/ (hol /\ wd < 5) \/ (hol /\ wd = 5))
  IN CASE stat = "sat_n"               -> wd = 5 /\ night
       [] stat = "sun_holiday_m2"      -> sun_or_hol("M2")
       [] stat = "sun_holiday_m1"      -> sun_or_hol("M1")
       [] stat = "sun_holiday_n"       -> night /\ (wd = 6 \/ (hol /\ wd < 5))
       [] stat = "sat_m2"              -> wd = 5 /\ type = "M2" /\ ~hol
       [] stat = "sat_m1"              -> wd = 5 /\ type = "M1" /\ ~hol
       [] stat = "fri_night"           -> wd = 4 /\ night /\ ~hol
       [] stat = "weekday_not_fri_n"   -> wd < 5 /\ wd # 4 /\ night /\ ~hol
       [] stat = "monday_day"          -> wd = 0 /\ dayshift /\ ~hol
       [] stat = "weekday_not_mon_day" -> wd < 5 /\ wd # 0 /\ dayshift /\ ~hol

stat_indices(shifts, stat) ==
  {s \in 1..Len(shifts) :
     InStat(stat, shifts[s].type, weekday(shifts[s].day), shifts[s].day \in holiday_set)}

\* _compute_past_stats: the first bucket of the elif chain that takes the entry.
past_bucket(type, wd, hol) ==
  LET order == <<"sat_n", "sun_holiday_m2", "sun_holiday_m1", "sun_holiday_n", "sat_m2",
                 "sat_m1", "fri_night", "weekday_not_fri_n", "monday_day",
                 "weekday_not_mon_day">>
      hits == {i \in 1..Len(order) : InStat(order[i], type, wd, hol)}
  IN IF hits = {} THEN None ELSE order[MinOf(hits)]

past_stats(history, w, stat) ==
  Cardinality({h \in history :
     /\ h.worker = w
     /\ past_bucket(h.shift, weekday(h.date), h.date \in holiday_set) = stat})

past_dow(history, w, d) ==
  Cardinality({h \in history : h.worker = w /\ weekday(h.date) = d})

\* build_load_balancing_cost: the least value of sum(over + under).
load_cost_min(a, days, shifts) ==
  LET terms == iso_week_keys(days) \X Workers
      hours(kw) == Sum([s \in week_shifts(shifts, kw[1]) |->
                          IF <<kw[2], s>> \in a THEN shifts[s].dur ELSE 0],
                       week_shifts(shifts, kw[1]))
  IN Sum([kw \in terms |-> Abs(hours(kw) - weekly_load(kw[2]))], terms)

\* build_equity_cost_scaled: the least value of sum(weight_i * (max_t - min_t)).
equity_cost_min(a, shifts, history) ==
  LET stats == SeqToSet(EQUITY_STATS)
      total(stat, w) == past_stats(history, w, stat) + Count(a, w, stat_indices(shifts, stat))
      spread(stat) == MaxOf({total(stat, w) : w \in Workers})
                      - MinOf({total(stat, w) : w \in Workers})
  IN Sum([stat \in stats |-> weight_i(stat) * spread(stat)], stats)

\* build_dow_equity_cost_scaled: round(DOW_EQUITY_WEIGHT * 10) = 10
dow_cost_min(a, shifts, history) ==
  LET total(d, w) == past_dow(history, w, d)
                     + Count(a, w, {s \in 1..Len(shifts) : weekday(shifts[s].day) = d})
      spread(d) == MaxOf({total(d, w) : w \in Workers})
                   - MinOf({total(d, w) : w \in Workers})
  IN Sum([d \in 0..6 |-> 10 * spread(d)], 0..6)

\* fairness_cost == load_cost + equity_cost + dow_cost: over, under, max_t
\* and min_t are bounded on one side only, so the variable can take any
\* value from this minimum upwards.
fairness_cost_min(a, days, shifts, history) ==
  load_cost_min(a, days, shifts) + equity_cost_min(a, shifts, history)
  + dow_cost_min(a, shifts, history)

\* ------------------------------------------------------- solve pipeline
\* SOLVER_TIMEOUT_SECONDS = 30.0; the solver clock is counted in tenths of
\* a second.
SOLVER_TIMEOUT_SECONDS == 300

\* At most MaxSlow solves of one call run until their time limit.
MaxSlow == 2
\* A feasible (not proven optimal) fairness value exceeds the least value of
\* its solution by at most MaxSlack.
MaxSlack == 1

\* stage_objectives of generate_schedule, in list order.
stage_objectives ==
  <<"rule1_sat_pref", "rule2_3day_min_workers", "rule3_weekend_limits",
    "rule4_consec_weekend", "rule5_m2_priority", "rule11_consec48",
    "rule12_night_interval", "rule13_consec_night", "fairness_load_equity",
    "tiebreak">>

\* The least value the stage's cost variable can take with the assignment a.
StageCost(name, a, days, unav_parsed, history) ==
  LET shifts == create_shifts(days)
  IN CASE name = "rule1_sat_pref" ->
            build_saturday_preference_cost(a, days, shifts, unav_parsed)
       [] name = "rule2_3day_min_workers" ->
            build_three_day_weekend_unique_workers_cost(a, days, shifts)
       [] name = "rule3_weekend_limits" ->
            build_weekend_shift_limits_cost(a, days, shifts)
       [] name = "rule4_consec_weekend" ->
            build_consecutive_weekend_avoidance_cost(a, days, shifts, history)
       [] name = "rule5_m2_priority" -> build_m2_priority_cost(a, shifts)
       [] name = "rule11_consec48" -> build_consec_shifts_48h_cost(a, shifts)
       [] name = "rule12_night_interval" -> build_night_shift_min_interval_cost(a, shifts)
       [] name = "rule13_consec_night" ->
            build_consecutive_night_shift_avoidance_cost(a, shifts)
       [] name = "fairness_load_equity" -> fairness_cost_min(a, days, shifts, history)
       [] name = "tiebreak" -> build_tiebreak_cost(a)

\* Only the fairness variable has room above its least value.
Slack(name) == IF name = "fairness_load_equity" THEN MaxSlack ELSE 0

\* Can the assignment a be completed to a solution with obj_var == v ?
Attains(name, c, v) == c <= v /\ (Slack(name) = 0 => c = v)

\* remaining = max(0.1, SOLVER_TIMEOUT_SECONDS - elapsed)
remaining(e) == Max2(1, SOLVER_TIMEOUT_SECONDS - e)

\* stages_left = max(1, len(stage_objectives) - idx)
stages_left(i) == Max2(1, Len(stage_objectives) - i)

\* per_stage: the time limit given to the solver of stage idx.
per_stage(i, e) ==
  IF i = 0
  THEN Max2(2200, (remaining(e) * 9) \div 10)
  ELSE Max2(10, remaining(e) \div stages_left(i))

\* if remaining < 2.0 and idx > 0: break
StopEarly(i, e) == remaining(e) < 20 /\ i > 0

Success == {"OPTIMAL", "FEASIBLE"}

\* stage_solver.Solve(model) with Minimize(obj_var): what the solver can
\* answer on a model whose solutions have the (least) costs in C, and how
\* long it ran.  A proof (OPTIMAL, INFEASIBLE) ends before the limit; FEASIBLE
\* and UNKNOWN mean the limit was reached.
SolveOutcomes(C, slack, limit, slow_left) ==
  IF C = {}
  THEN {[status |-> "INFEASIBLE", v |-> 0, dur |-> 0]}
       \cup (IF slow_left > 0
             THEN {[status |-> "UNKNOWN", v |-> 0, dur |-> limit]} ELSE {})
  ELSE {[status |-> "OPTIMAL", v |-> MinOf(C), dur |-> 0]}
       \cup (IF slow_left > 0
             THEN {[status |-> "UNKNOWN", v |-> 0, dur |-> limit]}
                  \cup {[status |-> "FEASIBLE", v |-> c + k, dur |-> limit] :
                          c \in C, k \in 0..slack}
             ELSE {})

\* ------------------------------------------------------------ the inputs
Entry(w, d, t) == [worker |-> w, date |-> d, shift |-> t]

AllNights == [w \in Workers |-> TRUE]
SomeNights == [w \in Workers |-> w <= 3]

\* Everybody is away on every day of the window.
AllAway == {<<w, d, None>> : w \in Workers, d \in SeqToSet(all_days)}

\* history: shifts on the two days before the window; the first week
\* committed; the last week committed; every week committed.
BeforeWindow == {Entry(1, -1, "N"), Entry(2, -2, "M2"), Entry(3, -1, "M2")}

FirstWeek ==
  {Entry(1, 0, "M1"), Entry(2, 0, "M2"), Entry(3, 0, "N"),
   Entry(4, 1, "M1"), Entry(5, 1, "M2"), Entry(1, 1, "N")}

LastWeek == {Entry(2, (NumWeeks - 1) * WeekLen, "M2")}

EveryWeek == {Entry(1, k * WeekLen, "M1") : k \in 0..(NumWeeks - 1)}

Call(h, cn, u, r) == [history |-> h, can_night |-> cn, unav_parsed |-> u, req_parsed |-> r]

\* Worker 6 is away on every day of the window.
SixthAway == {<<6, d, None>> : d \in SeqToSet(all_days)}

\* Worker 6 is away, except that on the first day of the last week only the
\* shifts M2 and N are excluded.
SixthLastWeek ==
  {<<6, d, None>> : d \in SeqToSet(all_days) \ {(NumWeeks - 1) * WeekLen}}
  \cup {<<6, (NumWeeks - 1) * WeekLen, "M2">>, <<6, (NumWeeks - 1) * WeekLen, "N">>}

\* The call that the other worker lists are explored with.
PlainCall == Call({}, SomeNights, SixthAway, {})

\* The calls of generate_schedule that are explored.
Calls ==
  { PlainCall,
    Call({}, SomeNights, SixthAway \cup {<<1, 0, "M1">>}, {<<2, 1, None>>}),
    Call({}, SomeNights, SixthLastWeek, {}),
    Call({}, SomeNights, AllAway, {}),
    Call({Entry(1, -1, "N")}, AllNights, {}, {}),
    Call(BeforeWindow, AllNights, {}, {}),
    Call(BeforeWindow, AllNights, AllAway, {}),
    Call(FirstWeek, AllNights, {}, {}),
    Call(LastWeek, SomeNights, {}, {}),
    Call(EveryWeek, AllNights, {}, {}) }

\* The worker lists that are explored: the five valid records, [], a list
\* with an entry that is not a dict, a list with a record that has a name but
\* no can_night.
WorkerLists == {"valid", "empty", "not_a_dict", "missing_can_night"}


\* ------------------------------------------------------------- the state
VARIABLES
  history, can_night, unav_parsed, req_parsed, lexicographic,  \* arguments
  workers,       \* the shape of the worker list argument
  pc,            \* the statement generate_schedule is at
  exc,           \* the exception that left generate_schedule, or None
  days,          \* days to optimize
  model,         \* what the name `model` is bound to: "CpModel" or None
  cons,          \* the constraints added to the CpModel so far
  feas,          \* the solutions of the CpModel, each with its stage costs
  idx,           \* loop index of the staged solve
  elapsed,       \* time.time() - start_t
  slow,          \* number of solves that ran to their limit
  limits,        \* max_time_in_seconds given to each solver, in order
  stage_status,  \* the last answer of Solve
  stage_values,  \* stage name -> fixed value
  solver,        \* "CpSolver" or None
  status,        \* status kept for the extraction, or None
  sol,           \* the assignment read from solver.Value(assigned[w][s])
  schedule,      \* {<<day, shift type, worker>>} of the target month
  assignments,   \* {[worker, date, shift]} of the solved window
  stats          \* the stats record returned by solve_and_extract_results

\* The history store of the scheduler service.
VARIABLES
  service_history,  \* SchedulerService._history: worker -> month -> list
  before,           \* the history before the last operation
  batch,            \* the assignments of the last update_history call
  op,               \* the last operation on the history
  ops               \* number of operations so far

store == <<service_history, before, batch, op, ops>>

\* The equity credits of a SchedulerService.
VARIABLES
  equity_credits,       \* self._equity_credits: the manual credits
  shift_reduction_pct,  \* self._shift_reduction_pct
  configured,           \* what the credit-setting operations last set
  merged_credits,       \* the equity_credits argument of the last generate_schedule
  cost_domains          \* can the cost equalities hold for the last call's assignment ?

credits == <<equity_credits, shift_reduction_pct, configured, merged_credits, cost_domains>>

\* A call of parse_unavail_or_req.
VARIABLES
  unav_list,   \* the argument: a list of strings, each held as item.split()
  unav_set,    \* the set that is returned
  parse_exc,   \* the exception that left the call, or None
  parse_pc     \* "call" before the call, "done" after it

parser == <<unav_list, unav_set, parse_exc, parse_pc>>

\* An evaluation of one of the weekend costs, or of the equity buckets of a
\* shift instance.
VARIABLES
  buckets,       \* the equity buckets found for the shift instance, or None
  holidays,      \* holiday_set: the holidays of the window
  roster,        \* the assignment the cost is evaluated for
  weekend_cost,  \* the value of three_day_unique_workers_cost, or None
  weekend_pc     \* "build" before the evaluation, "done" after it

weekend == <<holidays, roster, weekend_cost, weekend_pc, buckets>>

args == <<history, can_night, unav_parsed, req_parsed, lexicographic, workers>>
build == <<days, model, cons>>
solve == <<feas, idx, elapsed, slow, limits, stage_status, stage_values, solver, status>>
result == <<sol, schedule, assignments, stats>>
vars == <<args, pc, exc, build, solve, result, store, credits, parser, weekend>>

\* Before solve_and_extract_results returns there is no stats record.
NoStats ==
  [status |-> None, error |-> None, diagnostic_report |-> None,
   stage_values |-> [n \in {} |-> 0]]

\* The locals of generate_schedule when it is entered.
Fresh ==
  /\ pc = "setup"
  /\ exc = None
  /\ days = <<>>
  /\ model = None
  /\ cons = EmptyCons
  /\ feas = {}
  /\ idx = 0
  /\ elapsed = 0
  /\ slow = 0
  /\ limits = <<>>
  /\ stage_status = None
  /\ stage_values = [n \in {} |-> 0]
  /\ solver = None
  /\ status = None
  /\ sol = {}
  /\ schedule = {}
  /\ assignments = {}
  /\ stats = NoStats

\* ------------------------------------------------------ the history store
\* The workers, dates and shift types that history records are made of; the
\* dates 1 and 2 lie in one month, the date 3 in the next.
HistoryWorkers == {1, 2}
HistoryDates == {1, 2, 3}
HistoryShifts == {"M1", "N"}

\* day.strftime('%Y-%m')
m_y(d) == IF d <= 2 THEN "2026-01" ELSE "2026-02"

Months == {m_y(d) : d \in HistoryDates}

Records == {Entry(w, d, t) : w \in HistoryWorkers, d \in HistoryDates, t \in HistoryShifts}

\* self._history = {}
EmptyHistory == [w \in HistoryWorkers |-> [m \in Months |-> <<>>]]

\* The equity stats whose credits are followed.
CreditStats == {"sun_holiday_m2", "sat_n"}

\* self._equity_credits = {}, self._shift_reduction_pct = {}: a dict of
\* dicts is held as a function, 0 (100 for a percentage) for a missing entry.
NoCredits == [w \in Workers |-> [stat \in CreditStats |-> 0]]

NoReduction == [w \in Workers |-> [stat \in CreditStats |-> 100]]

EmptyStore ==
  /\ service_history = EmptyHistory
  /\ before = EmptyHistory
  /\ batch = <<>>
  /\ op = "new"
  /\ ops = 0
  /\ equity_credits = NoCredits
  /\ shift_reduction_pct = NoReduction
  /\ configured = NoCredits
  /\ merged_credits = None
  /\ cost_domains = None

\* The keys of ass_by_month, in insertion order.
RECURSIVE ass_by_month_keys(_)
ass_by_month_keys(asgs) ==
  IF asgs = <<>> THEN <<>>
  ELSE LET keys == ass_by_month_keys(SubSeq(asgs, 1, Len(asgs) - 1))
           k == m_y(asgs[Len(asgs)].date)
       IN IF k \in SeqToSet(keys) THEN keys ELSE Append(keys, k)

\* ass_by_month[m_y]
ass_by_month(asgs, k) == SelectSeq(asgs, LAMBDA ass : m_y(ass.date) = k)

\* Variant of Replace that appends only.
AppendOnly(h, ass) ==
  [h EXCEPT ![ass.worker][m_y(ass.date)] = Append(@, ass)]

\* The body of the inner loop of update_history: drop the entries of the
\* month list that have the date of ass, then append ass.
Replace(h, ass) ==
  [h EXCEPT ![ass.worker][m_y(ass.date)] =
     Append(SelectSeq(@, LAMBDA x : x.date # ass.date), ass)]

RECURSIVE ReplaceAll(_, _)
ReplaceAll(h, asgs) ==
  IF asgs = <<>> THEN h ELSE ReplaceAll(Replace(h, Head(asgs)), Tail(asgs))

RECURSIVE update_months(_, _, _)
update_months(h, asgs, keys) ==
  IF keys = <<>> THEN h
  ELSE update_months(ReplaceAll(h, ass_by_month(asgs, Head(keys))), asgs, Tail(keys))

\* update_history(assignments, history)
update_history(asgs, h) == update_months(h, asgs, ass_by_month_keys(asgs))

\* The merge loop of SchedulerService.load_history: of each month list of the
\* file, the entries whose (date, shift) the stored list did not hold when
\* the list was entered are appended.
load_history(loaded_history, h) ==
  [w \in HistoryWorkers |-> [m \in Months |->
     LET existing == {<<x.date, x.shift>> : x \in SeqToSet(h[w][m])}
     IN h[w][m] \o SelectSeq(loaded_history[w][m],
                             LAMBDA ass : <<ass.date, ass.shift>> \notin existing)]]

\* The batches of assignments given to update_history: one record, or two
\* records in date order (the order of the assignments list).
Batches ==
  {<<r>> : r \in Records}
  \cup {<<rr[1], rr[2]>> :
          rr \in {x \in Records \X Records : x[1] # x[2] /\ x[1].date <= x[2].date}}

\* The history files that are imported: each holds one month list of one
\* worker.
MonthLists(w, m) ==
  LET R == {r \in Records : r.worker = w /\ m_y(r.date) = m}
  IN {<<r>> : r \in R} \cup {<<rr[1], rr[2]>> : rr \in {x \in R \X R : x[1] # x[2]}}

Files ==
  UNION {{[EmptyHistory EXCEPT ![wm[1]][wm[2]] = l] : l \in MonthLists(wm[1], wm[2])} :
           wm \in HistoryWorkers \X Months}

\* Operations on the history in one run.
MaxOps == 2

\* ------------------------------------------------- parse_unavail_or_req
\* The words an entry is made of: two dates in ISO format, a text that is
\* not a date, a shift type, a word that is no shift type, and 'to'.
Words == {"d1", "d2", "bad", "M1", "XX", "to"}

\* item.split() of the entries that are explored: up to three words.
Items ==
  {<<>>} \cup {<<a>> : a \in Words} \cup {<<a, b>> : a \in Words, b \in Words}
  \cup {<<a, b, c>> : a \in Words, b \in Words, c \in Words}

\* The lists that are parsed: up to two entries.
Lists == {<<>>} \cup {<<i>> : i \in Items} \cup {<<i, j>> : i \in Items, j \in Items}

\* date.fromisoformat(word) returns a date for an ISO date and raises
\* ValueError for any other text.
IsIsoDate(word) == word \in {"d1", "d2"}

fromisoformat(word) == IF word = "d1" THEN 1 ELSE 2

\* One pass of the loop of parse_unavail_or_req: the tuples the entry adds,
\* or the exception it raises.
parse_item(parts) ==
  CASE Len(parts) = 1 ->
         IF IsIsoDate(parts[1])
         THEN [exc |-> None, add |-> {<<fromisoformat(parts[1]), None>>}]
         ELSE [exc |-> "ValueError", add |-> {}]
    [] Len(parts) = 2 ->
         IF ~IsIsoDate(parts[1]) THEN [exc |-> "ValueError", add |-> {}]
         ELSE IF parts[2] \in SeqToSet(SHIFT_TYPES)
              THEN [exc |-> None, add |-> {<<fromisoformat(parts[1]), parts[2]>>}]
              ELSE [exc |-> None, add |-> {}]
    [] Len(parts) = 3 /\ parts[2] = "to" ->
         IF ~IsIsoDate(parts[1]) \/ ~IsIsoDate(parts[3])
         THEN [exc |-> "ValueError", add |-> {}]
         ELSE [exc |-> None,
               add |-> {<<d, None>> : d \in fromisoformat(parts[1])..fromisoformat(parts[3])}]
    [] OTHER -> [exc |-> None, add |-> {}]

\* parse_unavail_or_req(unav_list): the set built by the loop, or the first
\* exception of an entry.
RECURSIVE parse_unavail_or_req(_)
parse_unavail_or_req(l) ==
  IF l = <<>> THEN [exc |-> None, set |-> {}]
  ELSE LET first == parse_item(Head(l))
           rest == parse_unavail_or_req(Tail(l))
       IN IF first.exc # None THEN [exc |-> first.exc, set |-> {}]
          ELSE IF rest.exc # None THEN rest
          ELSE [exc |-> None, set |-> first.add \cup rest.set]

NoWeekend ==
  /\ holidays = {}
  /\ roster = {}
  /\ weekend_cost = None
  /\ weekend_pc = "idle"
  /\ buckets = None

NoParse ==
  /\ unav_list = <<>>
  /\ unav_set = {}
  /\ parse_exc = None
  /\ parse_pc = "idle"

Init ==
  /\ \E c \in Calls :
       /\ history = c.history
       /\ can_night = c.can_night
       /\ unav_parsed = c.unav_parsed
       /\ req_parsed = c.req_parsed
       /\ workers \in IF c = PlainCall THEN WorkerLists ELSE {"valid"}
  /\ lexicographic \in BOOLEAN
  /\ Fresh
  /\ EmptyStore
  /\ NoParse
  /\ NoWeekend

\* ------------------------------------------------- generate_schedule steps
\* days = [d for d in all_days if d.isocalendar()[:2] not in excluded_week_keys]
days_to_optimize(h) ==
  LET excluded_week_keys ==
        scheduled_iso_weeks(h) \cap {IsoWeek(d) : d \in SeqToSet(all_days)}
      keep == {i \in 1..Len(all_days) : IsoWeek(all_days[i]) \notin excluded_week_keys}
  IN [k \in 1..Cardinality(keep) |->
        all_days[CHOOSE i \in keep : Cardinality({j \in keep : j < i}) = k - 1]]

Raise(e) ==
  /\ exc' = e
  /\ pc' = "raised"

\* Lines 512-557: the window, the excluded weeks, the days to optimize (the
\* log line reads days[0]), the shifts and a fresh CpModel.
Setup ==
  /\ pc = "setup"
  /\ days' = IF workers = "not_a_dict" THEN days ELSE days_to_optimize(history)
  /\ IF workers = "not_a_dict"
     THEN \* line 520 -> compute_automatic_equity_credits: worker['name']
          /\ Raise("TypeError")
          /\ UNCHANGED <<model, cons>>
     ELSE IF days' = <<>>
     THEN /\ Raise("IndexError")
          /\ UNCHANGED <<model, cons>>
     ELSE /\ pc' = "basic"
          /\ model' = "CpModel"
          /\ cons' = EmptyCons
          /\ exc' = exc
  /\ UNCHANGED <<args, store, credits, parser, weekend, solve, result>>

\* num_workers = len(workers): with an empty worker list every loop over the
\* workers is empty, and of the constraints c only the AddExactlyOne of each
\* shift (over no literal) is added.
Present(c) ==
  IF workers = "empty" THEN [EmptyCons EXCEPT !.exactly_one = c.exactly_one] ELSE c

\* A builder that adds the constraints c through `model` and whose value is
\* bound to `model` again.  A call of model.Add on None raises.
Builder(here, next, c, returns_model) ==
  /\ pc = here
  /\ IF model = None /\ c # EmptyCons
     THEN /\ Raise("AttributeError")
          /\ UNCHANGED <<model, cons>>
     ELSE /\ cons' = Merge(cons, Present(c))
          /\ model' = IF returns_model THEN model ELSE None
          /\ pc' = next
          /\ exc' = exc
  /\ UNCHANGED <<args, store, credits, parser, weekend, days, solve, result>>

\* workers[w]["can_night"] is read after the first two loops of
\* add_basic_constraints have added their constraints.
AddBasic ==
  IF workers = "missing_can_night"
  THEN /\ pc = "basic"
       /\ cons' = Merge(cons, [add_basic_constraints(days, create_shifts(days), can_night)
                                 EXCEPT !.eq0 = {}])
       /\ Raise("KeyError")
       /\ UNCHANGED <<args, store, credits, parser, weekend, days, model, solve, result>>
  ELSE Builder("basic", "unav_req",
               add_basic_constraints(days, create_shifts(days), can_night), TRUE)

AddUnavailReq ==
  Builder("unav_req", "rest24",
          add_unavail_req_constraints(days, create_shifts(days), unav_parsed, req_parsed),
          TRUE)

Add24h ==
  Builder("rest24", "cross_week", add_24h_interval_constraints(create_shifts(days)), TRUE)

\* `if not days or not history: return model`; otherwise the function ends
\* without a return statement.
AddCrossWeek ==
  IF days = <<>> \/ history = {}
  THEN Builder("cross_week", "participation", EmptyCons, TRUE)
  ELSE Builder("cross_week", "participation",
               add_cross_week_interval_constraints(create_shifts(days), days, history),
               FALSE)

AddParticipation ==
  Builder("participation", "fix_previous",
          add_weekly_participation_constraints(days, create_shifts(days), unav_parsed),
          TRUE)

FixPrevious ==
  Builder("fix_previous", "objectives",
          fix_previous_assignments(days, create_shifts(days), history), TRUE)

\* Lines 565-633 (649-671 in weighted-sum mode): the cost variables are
\* created through `model`; from here on the CpModel is ready to be solved.
BuildObjectives ==
  /\ pc = "objectives"
  /\ IF model = None
     THEN /\ Raise("AttributeError")
          /\ UNCHANGED feas
     ELSE /\ feas' = {[a |-> a,
                       cost |-> [i \in 1..Len(stage_objectives) |->
                                   StageCost(stage_objectives[i], a, days,
                                             unav_parsed, history)]] :
                        a \in IF workers = "empty" THEN {}
                               ELSE Solutions(cons, 3 * Len(days))}
          /\ pc' = "solve"
          /\ exc' = exc
  /\ UNCHANGED <<args, store, credits, parser, weekend, build, result>>
  /\ UNCHANGED <<idx, elapsed, slow, limits, stage_status, stage_values, solver, status>>

\* Variant of FixStage that adds no constraint.
NoFix(F, i, v) == F

\* model.Add(obj_var == v): the solutions that remain.
FixStage(F, i, v) ==
  {f \in F : Attains(stage_objectives[i + 1], f.cost[i + 1], v)}

\* stage_values[stage_name] = v
Record(sv, name, v) ==
  [n \in DOMAIN sv \cup {name} |-> IF n = name THEN v ELSE sv[n]]

\* Variant of KeptAfterFailure that drops the solver after any failed stage.
DroppedAfterFailure(i, prev) == None

\* What the loop does with a stage that ended without OPTIMAL or FEASIBLE:
\* the first stage drops solver and status, a later one keeps the previous.
KeptAfterFailure(i, prev) == IF i = 0 THEN None ELSE prev

\* One pass of `for idx, (stage_name, obj_var) in enumerate(stage_objectives)`.
SolveStage ==
  /\ pc = "solve"
  /\ lexicographic
  /\ IF idx >= Len(stage_objectives) \/ StopEarly(idx, elapsed)
     THEN /\ pc' = "extract"
          /\ UNCHANGED solve
     ELSE \E o \in SolveOutcomes({f.cost[idx + 1] : f \in feas},
                                 Slack(stage_objectives[idx + 1]),
                                 per_stage(idx, elapsed), MaxSlow - slow) :
            /\ limits' = Append(limits, per_stage(idx, elapsed))
            /\ elapsed' = elapsed + o.dur
            /\ slow' = IF o.dur > 0 THEN slow + 1 ELSE slow
            /\ stage_status' = o.status
            /\ IF o.status \notin Success
               THEN /\ solver' = KeptAfterFailure(idx, solver)
                    /\ status' = KeptAfterFailure(idx, status)
                    /\ pc' = "extract"
                    /\ UNCHANGED <<feas, idx, stage_values>>
               ELSE /\ stage_values' = Record(stage_values, stage_objectives[idx + 1], o.v)
                    /\ feas' = FixStage(feas, idx, o.v)
                    /\ solver' = "CpSolver"
                    /\ status' = o.status
                    /\ idx' = idx + 1
                    /\ pc' = "solve"
  /\ UNCHANGED <<args, store, credits, parser, weekend, exc, build, result>>

\* The single solve of the weighted-sum mode.
SolveWeighted ==
  /\ pc = "solve"
  /\ ~lexicographic
  /\ \E o \in SolveOutcomes({0 : f \in feas}, 0, SOLVER_TIMEOUT_SECONDS, MaxSlow - slow) :
       /\ limits' = Append(limits, SOLVER_TIMEOUT_SECONDS)
       /\ elapsed' = elapsed + o.dur
       /\ slow' = IF o.dur > 0 THEN slow + 1 ELSE slow
       /\ stage_status' = o.status
       /\ solver' = "CpSolver"
       /\ status' = o.status
  /\ pc' = "extract"
  /\ UNCHANGED <<args, store, credits, parser, weekend, exc, build, result, feas, idx, stage_values>>

\* Variant of FailedStats without the error entry.
FailedStatsNoError(sv) ==
  [status |-> "UNKNOWN", error |-> None, diagnostic_report |-> None, stage_values |-> sv]

\* The fallback record of lines 125-133.
FailedStats(sv) ==
  [status |-> "UNKNOWN",
   error |-> "No feasible solution found in staged optimization",
   diagnostic_report |-> None,
   stage_values |-> sv]

\* Does solve_and_extract_results call _run_infeasibility_diagnostics ?
\* diagnostic_context is a non-empty dict in every call of generate_schedule.
RunsDiagnostics(slv, st) ==
  IF slv = None \/ st = None THEN TRUE ELSE st = "INFEASIBLE"

\* schedule[str(day)][st] = workers[w]["name"] for the days of the month
ScheduleOf(a, shifts) ==
  {<<shifts[ws[2]].day, shifts[ws[2]].type, ws[1]>> :
     ws \in {x \in a : InMonth(shifts[x[2]].day)}}

\* Variant of AssignmentsOf that lists the days of the target month only.
AssignmentsOfMonth(a, shifts) ==
  {Entry(ws[1], shifts[ws[2]].day, shifts[ws[2]].type) :
     ws \in {x \in a : InMonth(shifts[x[2]].day)}}

\* Variant of AssignmentsOf that dates every shift to the Monday of its week.
AssignmentsOfWeek(a, shifts) ==
  {Entry(ws[1], WeekLen * IsoWeek(shifts[ws[2]].day), shifts[ws[2]].type) : ws \in a}

\* assignments.append({worker, date, shift, dur})
AssignmentsOf(a, shifts) ==
  {Entry(ws[1], shifts[ws[2]].day, shifts[ws[2]].type) : ws \in a}

\* Lines 122-232 of solve_and_extract_results: stats, diagnostics, and the
\* schedule read from the solver that was kept.
Extract ==
  /\ pc = "extract"
  /\ LET report == IF RunsDiagnostics(solver, status) THEN "DiagnosticReport" ELSE None
     IN IF solver = None \/ status = None
        THEN /\ stats' = [FailedStats(stage_values) EXCEPT !.diagnostic_report = report]
             /\ UNCHANGED <<sol, schedule, assignments>>
        ELSE /\ stats' = [status |-> status, error |-> None,
                          diagnostic_report |-> report, stage_values |-> stage_values]
             /\ IF status \in Success
                THEN \E f \in feas :
                       /\ sol' = f.a
                       /\ schedule' = ScheduleOf(f.a, create_shifts(days))
                       /\ assignments' = AssignmentsOf(f.a, create_shifts(days))
                ELSE UNCHANGED <<sol, schedule, assignments>>
  /\ pc' = "merge"
  /\ UNCHANGED <<args, store, credits, parser, weekend, exc, build, solve>>

\* Lines 677-688: _merge_excluded_weeks_into_results looks up
\* merge_excluded_weeks_into_results in schedule_pipeline, which has no such
\* attribute.
MergeExcludedWeeks ==
  /\ pc = "merge"
  /\ Raise("AttributeError")
  /\ UNCHANGED <<args, store, credits, parser, weekend, build, solve, result>>

Next ==
  \/ Setup
  \/ AddBasic
  \/ AddUnavailReq
  \/ Add24h
  \/ AddCrossWeek
  \/ AddParticipation
  \/ FixPrevious
  \/ BuildObjectives
  \/ SolveStage
  \/ SolveWeighted
  \/ Extract
  \/ MergeExcludedWeeks

Spec == Init /\ [][Next]_vars

\* ------------------------------------------- operations on the history
\* Everything but the history store.
outside_store == <<args, pc, exc, build, solve, result, credits, parser, weekend>>

outside_store_credits == <<args, pc, exc, build, solve, result, parser, weekend>>

\* No call of generate_schedule is under way.
NoCall ==
  /\ history = {}
  /\ can_night = AllNights
  /\ unav_parsed = {}
  /\ req_parsed = {}
  /\ lexicographic = TRUE
  /\ workers = "valid"
  /\ Fresh

InitHistory == NoCall /\ EmptyStore /\ NoParse /\ NoWeekend

\* scheduler_service.py:802  self._history = update_history(assignments, self._history)
UpdateHistory ==
  /\ ops < MaxOps
  /\ \E asgs \in Batches :
       /\ service_history' = update_history(asgs, service_history)
       /\ batch' = asgs
  /\ before' = service_history
  /\ op' = "update"
  /\ ops' = ops + 1
  /\ UNCHANGED outside_store

\* The same call once more, with the same assignments.
UpdateHistoryAgain ==
  /\ op = "update"
  /\ service_history' = update_history(batch, service_history)
  /\ before' = service_history
  /\ op' = "update_again"
  /\ UNCHANGED <<outside_store, batch, ops>>

\* SchedulerService.load_history(file_path)
LoadHistory ==
  /\ ops < MaxOps
  /\ \E loaded_history \in Files :
       service_history' = load_history(loaded_history, service_history)
  /\ before' = service_history
  /\ op' = "load"
  /\ ops' = ops + 1
  /\ UNCHANGED <<outside_store, batch>>

NextHistory ==
  \/ UpdateHistory
  \/ UpdateHistoryAgain
  \/ LoadHistory

SpecHistory == InitHistory /\ [][NextHistory]_vars

\* ------------------------------------------ calls of parse_unavail_or_req
InitParse ==
  /\ NoCall
  /\ EmptyStore
  /\ NoWeekend
  /\ unav_list \in Lists
  /\ unav_set = {}
  /\ parse_exc = None
  /\ parse_pc = "call"

Parse ==
  /\ parse_pc = "call"
  /\ LET r == parse_unavail_or_req(unav_list)
     IN /\ unav_set' = r.set
        /\ parse_exc' = r.exc
  /\ parse_pc' = "done"
  /\ UNCHANGED <<args, pc, exc, build, solve, result, store, credits, weekend, unav_list>>

NextParse == Parse

SpecParse == InitParse /\ [][NextParse]_vars

\* --------------------------------- the three-day-weekend cost on full weeks
\* A window of two ISO weeks of seven days, Monday 0 to Sunday 13.
full_weeks == [i \in 1..14 |-> i - 1]

\* iso_weeks[key]["days"] of that window.
full_week_days(key) == {d \in SeqToSet(full_weeks) : d \div 7 = key}

\* The holidays that are explored: a Wednesday, the Friday of the first
\* week, the Monday of the second week, and both of these.
HolidaySets == {{2}, {4}, {7}, {4, 7}}

\* The assignments that are explored: on each day from that Friday to that
\* Monday one of the workers 1 to 3 holds M1 and one of them holds N.
RostersOn(D) ==
  {UNION {{<<f[d][1], 3 * d + 1>>, <<f[d][2], 3 * d + 3>>} : d \in D} :
     f \in [D -> {1, 2, 3} \X {1, 2, 3}]}

Rosters == RostersOn(4..7)

InitWeekend ==
  /\ NoCall
  /\ EmptyStore
  /\ NoParse
  /\ holidays \in HolidaySets
  /\ roster \in Rosters
  /\ weekend_cost = None
  /\ weekend_pc = "build"
  /\ buckets = None

\* build_three_day_weekend_unique_workers_cost on the two full weeks, with
\* the cost variable at the sum of its indicators.
BuildWeekendCost ==
  /\ weekend_pc = "build"
  /\ weekend_cost' =
       three_day_unique_workers_cost(
         roster, create_shifts(full_weeks),
         UNION {three_day_periods_in(full_week_days(key), holidays, 7) : key \in {0, 1}})
  /\ weekend_pc' = "done"
  /\ UNCHANGED <<args, pc, exc, build, solve, result, store, credits, parser, holidays, roster, buckets>>

\* build_weekend_shift_limits_cost on the two full weeks, with the cost
\* variable at the sum of its indicators.
BuildLimitsCost ==
  /\ weekend_pc = "build"
  /\ weekend_cost' =
       weekend_shift_limits_cost(roster, create_shifts(full_weeks), {0, 1}, 7, holidays)
  /\ weekend_pc' = "limits"
  /\ UNCHANGED <<args, pc, exc, build, solve, result, store, credits, parser, holidays, roster, buckets>>

NextWeekend == BuildWeekendCost \/ BuildLimitsCost

SpecWeekend == InitWeekend /\ [][NextWeekend]_vars

\* ------------------------------------------ the service's equity credits
\* round(num / den) of Python: to the nearest integer, a tie to the even one.
round_half_even(num, den) ==
  LET q == num \div den
      r == num % den
  IN IF 2 * r > den \/ (2 * r = den /\ q % 2 = 1) THEN q + 1 ELSE q

\* _compute_past_stats(self._history, workers_dict)[w][stat]; the dates of
\* the stored entries are days of full weeks and no holidays.
service_past_stats(h, w, stat) ==
  IF w \notin HistoryWorkers THEN 0
  ELSE Cardinality({x \in UNION {{<<m, i>> : i \in 1..Len(h[w][m])} : m \in Months} :
                      past_bucket(h[w][x[1]][x[2]].shift,
                                  h[w][x[1]][x[2]].date % 7, FALSE) = stat})

\* SchedulerService.compute_credits_from_percentages
compute_credits_from_percentages(pct, h) ==
  LET total(stat) == Sum([w \in Workers |-> service_past_stats(h, w, stat)], Workers)
      credit(w, stat) ==
        round_half_even(total(stat) * (100 - pct[w][stat]), Cardinality(Workers) * 100)
  IN [w \in Workers |-> [stat \in CreditStats |->
        IF pct[w][stat] # 100 /\ credit(w, stat) > 0 THEN credit(w, stat) ELSE 0]]

\* build_equity_cost_scaled: can max_t, min_t and equity_cost take values of
\* their domains that satisfy the constraints, for these totals ?  The
\* buckets outside CreditStats are taken as balanced.
equity_cost_in_domain(totals) ==
  LET MAX_STAT_VALUE == 10000
      scale == 10
      most(stat) == MaxOf({totals[w][stat] : w \in Workers})
      least(stat) == MinOf({totals[w][stat] : w \in Workers})
  IN /\ \A stat \in CreditStats : most(stat) <= MAX_STAT_VALUE /\ least(stat) >= 0
     /\ Sum([stat \in CreditStats |->
               weight_i(stat) * (Max2(most(stat), 0) - Min2(least(stat), MAX_STAT_VALUE))],
            CreditStats)
          <= MAX_STAT_VALUE * Len(EQUITY_STATS) * scale

\* The history of a service in which worker 1 has worked the M2 shift of
\* the last n Sundays before the window.
SundayHistory(n) ==
  [w \in HistoryWorkers |-> [m \in Months |->
     IF w = 1 /\ m = "2026-01"
     THEN [k \in 1..n |-> Entry(1, 6 - 7 * k, "M2")]
     ELSE <<>>]]

\* A service with or without history, in which worker 1 may have a 50 %
\* allocation of the Sunday and holiday M2 shifts and may have a manual
\* credit loaded from the configuration file.
InitService ==
  /\ NoCall
  /\ NoParse
  /\ NoWeekend
  /\ service_history \in {EmptyHistory, SundayHistory(12)}
  /\ before = EmptyHistory
  /\ batch = <<>>
  /\ op = "new"
  /\ ops = 0
  /\ equity_credits \in {NoCredits, [NoCredits EXCEPT ![1]["sat_n"] = 2]}
  /\ shift_reduction_pct \in
       {NoReduction, [NoReduction EXCEPT ![1]["sun_holiday_m2"] = 50]}
  /\ configured = equity_credits
  /\ merged_credits = None
  /\ cost_domains = None

\* SchedulerService.set_worker_equity_credit(worker_name, stat, value)
SetCredit ==
  /\ ops < MaxOps
  /\ \E w \in {1, 2}, stat \in CreditStats, value \in {0, 2, 12} :
       /\ equity_credits' = [equity_credits EXCEPT ![w][stat] = value]
       /\ configured' = [configured EXCEPT ![w][stat] = value]
  /\ op' = "set_credit"
  /\ ops' = ops + 1
  /\ UNCHANGED <<outside_store_credits, service_history, before, batch,
                 shift_reduction_pct, merged_credits, cost_domains>>

\* SchedulerService.generate.  merged_credits = dict(self._equity_credits)
\* copies the outer dict only: the dict of a worker who has manual credits is
\* shared, and the percentage-based credits are added into it.  The engine
\* adds merged_credits to past_stats and builds the costs, unless it raised
\* before (with history it does; generate catches the exception).  The
\* window has one Sunday M2 shift, which worker 1 or worker 2 holds.
Generate ==
  /\ ops < MaxOps
  /\ LET pct_credits == compute_credits_from_percentages(shift_reduction_pct, service_history)
         merged == [w \in Workers |-> [stat \in CreditStats |->
                      equity_credits[w][stat] + pct_credits[w][stat]]]
         shared(w) == /\ \E stat \in CreditStats : equity_credits[w][stat] # 0
                      /\ \E stat \in CreditStats : pct_credits[w][stat] # 0
     IN /\ merged_credits' = merged
        /\ equity_credits' = [w \in Workers |->
                                IF shared(w) THEN merged[w] ELSE equity_credits[w]]
        /\ IF service_history # EmptyHistory
           THEN cost_domains' = None
           ELSE \E holder \in {1, 2} :
                  cost_domains' =
                    IF equity_cost_in_domain(
                         [w \in Workers |-> [stat \in CreditStats |->
                            service_past_stats(service_history, w, stat) + merged[w][stat]
                            + (IF w = holder /\ stat = "sun_holiday_m2" THEN 1 ELSE 0)]])
                    THEN "satisfiable" ELSE "unsatisfiable"
  /\ op' = "generate"
  /\ ops' = ops + 1
  /\ UNCHANGED <<outside_store_credits, service_history, before, batch,
                 shift_reduction_pct, configured>>

NextService == SetCredit \/ Generate

SpecService == InitService /\ [][NextService]_vars

\* ------------------------------------------- the equity buckets of a shift
\* One shift instance of the two full weeks, held by worker 1, and the
\* holidays among the Friday, Saturday and Sunday of the first week and the
\* Monday and Wednesday of the second.
InitEquity ==
  /\ NoCall
  /\ EmptyStore
  /\ NoParse
  /\ holidays \in SUBSET {4, 5, 6, 7, 9}
  /\ \E s \in 1..(3 * Len(full_weeks)) : roster = {<<1, s>>}
  /\ weekend_cost = None
  /\ weekend_pc = "classify"
  /\ buckets = None

\* The buckets of EQUITY_STATS that define_stat_indices lists the shift
\* instance in, and the bucket _compute_past_stats counts it in when it is
\* read back from history.
ClassifyShift ==
  /\ weekend_pc = "classify"
  /\ \E ws \in roster :
       LET sh == create_shifts(full_weeks)[ws[2]]
       IN buckets' =
            [current |-> {stat \in SeqToSet(EQUITY_STATS) :
                            InStat(stat, sh.type, sh.day % 7, sh.day \in holidays)},
             past |-> past_bucket(sh.type, sh.day % 7, sh.day \in holidays)]
  /\ weekend_pc' = "classified"
  /\ UNCHANGED <<args, pc, exc, build, solve, result, store, credits, parser,
                 holidays, roster, weekend_cost>>

NextEquity == ClassifyShift

SpecEquity == InitEquity /\ [][NextEquity]_vars

\* ------------------------------------------------ the relaxation analysis
RECURSIVE Feasible(_, _, _, _)
\* solver.Solve(model) in (OPTIMAL, FEASIBLE) for a model in which every
\* shift has exactly one worker: a is the assignment of the shifts before s.
Feasible(c, a, s, n) ==
  IF s > n
  THEN /\ c.eq1 \subseteq a
       /\ \A m \in c.at_least_one : \E t \in m[2] : <<m[1], t>> \in a
  ELSE \E w \in Workers :
         /\ <<w, s>> \notin c.eq0
         /\ \A t \in 1..(s - 1) :
              <<w, t>> \in a =>
                /\ <<w, t, s>> \notin c.not_both
                /\ <<w, s, t>> \notin c.not_both
                /\ \A m \in c.at_most_one : ~(m[1] = w /\ t \in m[2] /\ s \in m[2])
         /\ Feasible(c, a \cup {<<w, s>>}, s + 1, n)

\* _build_model_without_<group>: _build_base_model (coverage and
\* unavailability) with every group of constraint_groups but `without`.
relaxed_model(without, dys, shifts, night_ok, unav) ==
  LET n == Len(shifts)
      _build_base_model ==
        [EmptyCons EXCEPT
           !.exactly_one = 1..n,
           !.eq0 = {<<w, s>> \in Workers \X (1..n) :
                      \E u \in unav :
                         /\ u[1] = w
                         /\ shifts[s].day = u[2]
                         /\ (u[3] = None \/ shifts[s].type = u[3])}]
      _add_one_shift_per_day ==
        [EmptyCons EXCEPT
           !.at_most_one = {<<w, shifts_by_day(shifts, d)>> :
                              w \in Workers, d \in SeqToSet(dys)}]
      _add_night_restrictions ==
        [EmptyCons EXCEPT
           !.eq0 = {<<w, s>> \in Workers \X (1..n) : ~night_ok[w] /\ shifts[s].night}]
      _add_rest_interval ==
        [EmptyCons EXCEPT
           !.not_both = {<<w, i, j>> \in Workers \X (1..n) \X (1..n) :
                           i < j /\ RestConflict(shifts[i], shifts[j])}]
      _add_weekly_participation ==
        [EmptyCons EXCEPT
           !.at_least_one =
             UNION {{<<w, week_shifts(shifts, key)>> :
                       w \in {x \in Workers :
                                \E wd \in weekdays_for_distribution(dys, key) :
                                   <<x, wd, None>> \notin unav}} :
                    key \in iso_week_keys(dys)}]
      Group(name, c) == IF name = without THEN EmptyCons ELSE c
  IN Merge(Merge(_build_base_model,
                 Group("one_shift_per_day", _add_one_shift_per_day)),
           Merge(Group("night_restrictions", _add_night_restrictions),
                 Merge(Group("24h_rest_interval", _add_rest_interval),
                       Group("weekly_participation", _add_weekly_participation))))

\* run_relaxation_analysis: the relaxation results, and the groups the
\* summary names ("Model becomes feasible when relaxing: ..."; the two other
\* summaries name none).
run_relaxation_analysis(dys, shifts, night_ok, unav) ==
  LET constraint_groups ==
        <<"weekly_participation", "24h_rest_interval", "one_shift_per_day",
          "night_restrictions">>
      names == SeqToSet(constraint_groups)
      relaxation_results ==
        [name \in names |->
           Feasible(relaxed_model(name, dys, shifts, night_ok, unav), {}, 1, Len(shifts))]
  IN [relaxation_results |-> relaxation_results,
      summary |-> {name \in names : relaxation_results[name]}]

\* The whole model of hard constraints of a call without history and
\* without required shifts.
hard_constraints(dys, shifts, night_ok, unav) ==
  Merge(Merge(add_basic_constraints(dys, shifts, night_ok),
              add_unavail_req_constraints(dys, shifts, unav, {})),
        Merge(add_24h_interval_constraints(shifts),
              add_weekly_participation_constraints(dys, shifts, unav)))

\* The diagnostics object of a call on one ISO week without history.  The
\* unavailabilities are explored by blocks: worker 1 away on either day,
\* worker 2 unavailable for every shift type of both days, worker 3 for both
\* nights, and everybody away on the first day.
InitDiagnostics ==
  /\ history = {}
  /\ can_night \in {AllNights, SomeNights, [w \in Workers |-> FALSE]}
  /\ \E B \in SUBSET {{<<1, 0, None>>}, {<<1, 1, None>>},
                       {<<2, d, t>> : d \in {0, 1}, t \in {"M1", "M2", "N"}},
                       {<<3, 0, "N">>, <<3, 1, "N">>},
                       {<<w, 0, None>> : w \in Workers}} :
       unav_parsed = UNION B
  /\ req_parsed = {}
  /\ lexicographic = TRUE
  /\ workers = "valid"
  /\ pc = "diagnose"
  /\ exc = None
  /\ days = <<0, 1>>
  /\ model = None
  /\ cons = EmptyCons
  /\ feas = {}
  /\ idx = 0
  /\ elapsed = 0
  /\ slow = 0
  /\ limits = <<>>
  /\ stage_status = None
  /\ stage_values = <<>>
  /\ solver = None
  /\ status = "INFEASIBLE"
  /\ sol = {}
  /\ schedule = {}
  /\ assignments = {}
  /\ stats = NoStats
  /\ EmptyStore
  /\ NoParse
  /\ NoWeekend

\* _run_infeasibility_diagnostics -> run_diagnostics(full_analysis=True),
\* called when the solve of the whole model was INFEASIBLE.
RunRelaxationAnalysis ==
  /\ pc = "diagnose"
  /\ ~Feasible(hard_constraints(days, create_shifts(days), can_night, unav_parsed),
               {}, 1, 3 * Len(days))
  /\ stats' = [stats EXCEPT
                 !.status = "INFEASIBLE",
                 !.diagnostic_report =
                   run_relaxation_analysis(days, create_shifts(days), can_night, unav_parsed)]
  /\ pc' = "reported"
  /\ UNCHANGED <<args, store, credits, parser, weekend, exc, build, solve, sol, schedule, assignments>>

NextDiagnostics == RunRelaxationAnalysis

SpecDiagnostics == InitDiagnostics /\ [][NextDiagnostics]_vars

\* ------------------------------ the consecutive-weekend cost on full weeks
\* The histories that are explored: nothing, or shifts on the weekend before
\* the window (which lies in the month before the target month).
PriorWeekends ==
  {{}, {Entry(1, -1, "M1")}, {Entry(1, -1, "M1"), Entry(2, -2, "N")}}

\* The window is two full weeks of the target month; on the two Saturdays
\* and Sundays the workers 1 to 3 hold M1 and N.
InitConsecutive ==
  /\ history \in PriorWeekends
  /\ can_night = AllNights
  /\ unav_parsed = {}
  /\ req_parsed = {}
  /\ lexicographic = TRUE
  /\ workers = "valid"
  /\ Fresh
  /\ EmptyStore
  /\ NoParse
  /\ holidays = {}
  /\ roster \in RostersOn({5, 6, 12, 13})
  /\ weekend_cost = None
  /\ weekend_pc = "build"
  /\ buckets = None

\* build_consecutive_weekend_avoidance_cost on the two full weeks, with the
\* cost variable at the sum of its penalties.
BuildConsecutiveCost ==
  /\ weekend_pc = "build"
  /\ weekend_cost' =
       consecutive_weekend_cost(roster, create_shifts(full_weeks), {0, 1}, 7,
                                SeqToSet(full_weeks), history)
  /\ weekend_pc' = "done"
  /\ UNCHANGED <<args, pc, exc, build, solve, result, store, credits, parser, holidays, roster, buckets>>

NextConsecutive == BuildConsecutiveCost

SpecConsecutive == InitConsecutive /\ [][NextConsecutive]_vars

\* ------------------------------------------------------------ properties
StartOf(e) == 24 * e.date + SHIFTS[e.shift].start_hour
EndOf(e) == 24 * e.date + SHIFTS[e.shift].end_hour

\* The later of two shifts starts at least 24 h after the earlier one ends.
Rested(x, y) ==
  \/ EndOf(x) + MIN_REST_HOURS <= StartOf(y)
  \/ EndOf(y) + MIN_REST_HOURS <= StartOf(x)

\* The historical shifts on the two days before the first optimized day.
RecentHistory ==
  {h \in history : days # <<>> /\ h.date \in {days[1] - 1, days[1] - 2}}

\* solve_and_extract_results has returned.
Extracted == stats # NoStats

\* add_cross_week_interval_constraints has run.
CrossWeekActed ==
  /\ days # <<>>
  /\ pc \notin {"setup", "basic", "unav_req", "rest24", "cross_week"}

ShiftEntry(w, s) ==
  Entry(w, create_shifts(days)[s].day, create_shifts(days)[s].type)

CallEnded == pc = "raised"

\* History entries of the window that lie in the target month.
CommittedInMonth ==
  {h \in history : h.date \in SeqToSet(all_days) /\ InMonth(h.date)}

\* C2: when history holds assignments in a week of the window, the call
\* returns, for the dates of that week in the target month, exactly the
\* historical (shift -> worker) pairs.
C2_HistoryReproduced ==
  (CallEnded /\ CommittedInMonth # {}) =>
     /\ exc = None
     /\ \A h \in CommittedInMonth :
          \A w \in Workers : <<h.date, h.shift, w>> \in schedule <=> w = h.worker

\* C3: generate_schedule never propagates an exception.
C3_NeverRaises == exc = None

\* Stage 0 of the staged solve ended without a solution.
Stage0Failed ==
  lexicographic /\ idx = 0 /\ stage_status \in {"INFEASIBLE", "UNKNOWN"}

LaterStageFailed ==
  lexicographic /\ idx >= 1 /\ stage_status \in {"INFEASIBLE", "UNKNOWN"}

\* The assignment a satisfies every constraint in c.
Satisfies(a, c) ==
  /\ \A s \in c.exactly_one : Cardinality({w \in Workers : <<w, s>> \in a}) = 1
  /\ \A m \in c.at_most_one : Count(a, m[1], m[2]) <= 1
  /\ \A m \in c.at_least_one : Count(a, m[1], m[2]) >= 1
  /\ c.eq0 \cap a = {}
  /\ c.eq1 \subseteq a
  /\ \A t \in c.not_both : ~(<<t[1], t[2]>> \in a /\ <<t[1], t[3]>> \in a)

StageNames(k) == {stage_objectives[i] : i \in 1..k}

\* The value of each stage in sv is attained by the assignment a.
AttainsAll(a, sv) ==
  \A n \in DOMAIN sv :
     Attains(n, StageCost(n, a, days, unav_parsed, history), sv[n])

C6_StageValuesStayFixed ==
  /\ \A f \in feas :
       \A i \in 1..Len(stage_objectives) :
          stage_objectives[i] \in DOMAIN stage_values =>
             Attains(stage_objectives[i], f.cost[i], stage_values[stage_objectives[i]])
  /\ (Extracted /\ lexicographic /\ stats.status \in Success) =>
       /\ stats.stage_values = stage_values
       /\ AttainsAll(sol, stats.stage_values)

C6_Witness ==
  /\ Extracted
  /\ lexicographic
  /\ stats.status \in Success
  /\ DOMAIN stats.stage_values = StageNames(Len(stage_objectives))
  /\ stats.stage_values["rule1_sat_pref"] > 0
  /\ stats.stage_values["fairness_load_equity"] > 0

\* C7: the stages are solved in the priority order of the rule list, in
\* which the combined fairness stage comes before the rest-gap and
\* night-spacing rules: whenever one of these has a fixed value, fairness
\* has one already.
C7_FairnessBeforeSpacing ==
  (DOMAIN stage_values \cap
     {"rule11_consec48", "rule12_night_interval", "rule13_consec_night"} # {})
  => "fairness_load_equity" \in DOMAIN stage_values

\* The pipeline returned without a solution.
NoSolution == Extracted /\ (solver = None \/ status \notin Success)

\* C8: when no solution is found, stats.status is infeasible exactly when
\* the solver proved the model infeasible, in both modes.
C8_StatusTellsInfeasible ==
  NoSolution => (stats.status = "INFEASIBLE" <=> stage_status = "INFEASIBLE")

\* C9: stats.diagnostic_report is filled only when the first stage or the
\* single solve reported the model infeasible.
C9_DiagnosticsOnlyIfInfeasible ==
  (Extracted /\ stats.diagnostic_report # None) =>
     stage_status = "INFEASIBLE" /\ idx = 0

\* C10: the time limits given to the solvers of one call stay within the
\* total budget: their sum never exceeds SOLVER_TIMEOUT_SECONDS.
C10_LimitsWithinBudget ==
  Sum(limits, DOMAIN limits) <= SOLVER_TIMEOUT_SECONDS

\* C11: with an empty worker list, an entry that is not a dict or a record
\* without can_night, generate_schedule builds and solves no constraint
\* model, raises nothing, and ends with an empty schedule and an error entry
\* in stats.
C11_InvalidWorkersShortCircuit ==
  workers # "valid" =>
    /\ model = None
    /\ limits = <<>>
    /\ exc = None
    /\ pc \in {"merge", "raised"} => (stats.error # None /\ schedule = {})

\* The positions of the entries that the history h holds for the worker w.
Positions(h, w) == UNION {{<<m, i>> : i \in 1..Len(h[w][m])} : m \in Months}

\* The entries that the history h holds for the worker w on the date d.
EntriesFor(h, w, d) == {x \in Positions(h, w) : h[w][x[1]][x[2]].date = d}

\* C12: after any sequence of update_history calls and history imports the
\* history holds at most one entry per (worker, date).
C12_OneEntryPerWorkerDate ==
  \A w \in HistoryWorkers, d \in HistoryDates :
     Cardinality(EntriesFor(service_history, w, d)) <= 1

\* The (worker, date, shift) triples of a history, and its number of entries.
Mapping(h) ==
  UNION {{Entry(w, h[w][x[1]][x[2]].date, h[w][x[1]][x[2]].shift) : x \in Positions(h, w)} :
           w \in HistoryWorkers}

NumEntries(h) ==
  Cardinality(UNION {{<<w, x>> : x \in Positions(h, w)} : w \in HistoryWorkers})

\* C13: update_history is idempotent: applying it a second time with the
\* same assignments leaves the (worker, date) -> shift mapping and the number
\* of entries as the first application left them.
C13_UpdateIdempotent ==
  op = "update_again" =>
    /\ Mapping(service_history) = Mapping(before)
    /\ NumEntries(service_history) = NumEntries(before)

\* A batch with two shifts for one (worker, date) was applied twice to a
\* history that an earlier operation had filled.
C13_Witness ==
  /\ op = "update_again"
  /\ ops = 2
  /\ Len(batch) = 2
  /\ batch[1].worker = batch[2].worker
  /\ batch[1].date = batch[2].date
  /\ batch[1].shift # batch[2].shift
  /\ NumEntries(service_history) >= 2

\* solve_and_extract_results has returned a feasible result.
FeasibleResult == Extracted /\ stats.status \in Success

WellFormed(parts) ==
  \/ Len(parts) = 1 /\ parts[1] \in {"d1", "d2"}
  \/ Len(parts) = 2 /\ parts[1] \in {"d1", "d2"} /\ parts[2] = "M1"
  \/ /\ Len(parts) = 3
     /\ parts[2] = "to"
     /\ <<parts[1], parts[3]>> \in {<<"d1", "d1">>, <<"d1", "d2">>, <<"d2", "d2">>}

\* The tuples of the well-formed entries of a list.
Expected(l) ==
  UNION {parse_item(l[i]).add : i \in {j \in 1..Len(l) : WellFormed(l[j])}}

\* C18: parse_unavail_or_req raises for no list of strings; malformed
\* entries add no tuple and every well-formed entry of the list is parsed.
C18_ParseNeverRaises ==
  parse_pc = "done" =>
    /\ parse_exc = None
    /\ unav_set = Expected(unav_list)

\* add_cross_week_interval_constraints has just returned.
AfterCrossWeek == pc = "participation" /\ history # {} /\ days # <<>>

\* The variables that the builders before the cross-week builder force to 0.
ForcedBefore ==
  Merge(add_basic_constraints(days, create_shifts(days), can_night),
        add_unavail_req_constraints(days, create_shifts(days), unav_parsed, req_parsed)).eq0

\* The shift s of the window starts less than MIN_REST_HOURS after the end
\* of a shift that the worker w has in history on the two days before it.
TooSoonAfterHistory(w, s) ==
  \E h \in RecentHistory :
     /\ h.worker = w
     /\ create_shifts(days)[s].start < EndOf(h) + MIN_REST_HOURS

\* C19: the cross-week builder forces assigned[w][s] to 0 exactly for the
\* window shifts s that start less than MIN_REST_HOURS after the end of a
\* shift of w on the one or two days before the window; a gap of exactly
\* MIN_REST_HOURS stays assignable and no other worker is restricted.
C19_CrossWeekBlocksExactly ==
  AfterCrossWeek =>
    \A w \in Workers, s \in 1..(3 * Len(days)) :
       /\ TooSoonAfterHistory(w, s) => <<w, s>> \in cons.eq0
       /\ <<w, s>> \in cons.eq0 \ ForcedBefore => TooSoonAfterHistory(w, s)

\* The builder has run for a history in which one worker has a shift before
\* the window: a shift of the window is forbidden to them, the shift that
\* starts exactly MIN_REST_HOURS after that shift's end is not, and a worker
\* without such a shift has no forbidden variable.
C19_Witness ==
  /\ AfterCrossWeek
  /\ ForcedBefore = {}
  /\ \E h \in RecentHistory, s \in 1..(3 * Len(days)), t \in 1..(3 * Len(days)) :
       /\ <<h.worker, s>> \in cons.eq0
       /\ create_shifts(days)[t].start = EndOf(h) + MIN_REST_HOURS
       /\ <<h.worker, t>> \notin cons.eq0
  /\ \E w \in Workers :
       /\ \A h \in RecentHistory : h.worker # w
       /\ \A s \in 1..(3 * Len(days)) : <<w, s>> \notin cons.eq0

\* The Fri-Sat-Sun and Sat-Sun-Mon blocks that the holidays create inside
\* the window of two full weeks.
Blocks ==
  {B \in {{h, h + 1, h + 2} : h \in {x \in holidays : x % 7 = 4}}
         \cup {{h - 2, h - 1, h} : h \in {x \in holidays : x % 7 = 0}} :
     B \subseteq SeqToSet(full_weeks)}

\* The workers who hold at least one shift of the block B.
WorkersIn(B) ==
  {w \in Workers : \E ws \in roster : ws[1] = w /\ create_shifts(full_weeks)[ws[2]].day \in B}

\* C20: for the Friday and Monday holidays whose three-day block lies in the
\* window, the three-day-weekend cost is the number of distinct workers
\* holding at least one shift of the block, each counted once per block.
C20_ThreeDayCostCountsWorkers ==
  weekend_pc = "done" =>
    weekend_cost = Sum([B \in Blocks |-> Cardinality(WorkersIn(B))], Blocks)

\* The worker w holds a weekend shift of the week key in the roster.
WeekendIn(w, key) ==
  \E ws \in roster :
     /\ ws[1] = w
     /\ create_shifts(full_weeks)[ws[2]].day \in {7 * key + 5, 7 * key + 6}

\* The worker w worked the weekend before the week key: that weekend is in
\* history, or it is the weekend of the week before in the same roster.
WorkedWeekendBefore(w, key) ==
  \/ \E h \in history : h.worker = w /\ h.date \in {7 * key - 2, 7 * key - 1}
  \/ key > 0 /\ WeekendIn(w, key - 1)

\* Another worker has had no weekend shift of the month before the week key.
OtherWithoutWeekend(w, key) ==
  \E o \in Workers \ {w} :
     /\ \A h \in history : h.worker = o => h.date \notin SeqToSet(full_weeks)
     /\ \A k \in 0..(key - 1) : ~WeekendIn(o, k)

\* C21: the consecutive-weekend cost counts, per worker and ISO week, one
\* penalty when the worker holds a weekend shift in the week, worked the
\* weekend before (in history or in the same solve) and another worker has
\* had no weekend shift yet this month, and none otherwise.
C21_ConsecutiveWeekendPenalty ==
  weekend_pc = "done" =>
    weekend_cost =
      Cardinality({kw \in {0, 1} \X Workers :
                     /\ WeekendIn(kw[2], kw[1])
                     /\ WorkedWeekendBefore(kw[2], kw[1])
                     /\ OtherWithoutWeekend(kw[2], kw[1])})

\* The workers who hold a Saturday shift and a Sunday shift of the week key.
BothDays(key) ==
  {w \in Workers :
     \A d \in {7 * key + 5, 7 * key + 6} :
        \E ws \in roster : ws[1] = w /\ create_shifts(full_weeks)[ws[2]].day = d}

\* The weeks whose Saturday and Sunday belong to no three-day block.
PlainWeekends == {key \in {0, 1} : \A B \in Blocks : {7 * key + 5, 7 * key + 6} \cap B = {}}

\* C22: the weekend-limits cost penalizes no Saturday+Sunday pair that
\* belongs to a three-day block (Fri-Sat-Sun or Sat-Sun-Mon): it counts at
\* most the workers holding both days of a weekend outside every block.
C22_NoLimitsOnThreeDayBlock ==
  weekend_pc = "limits" =>
    weekend_cost <= Sum([key \in PlainWeekends |-> Cardinality(BothDays(key))], PlainWeekends)

\* The hard-constraint groups in the order of the incremental analysis.
GroupOrder == <<"basic", "availability", "rest_24h", "cross_window", "participation">>

\* The constraints of the i-th group of GroupOrder for the diagnosed call.
GroupConstraints(i) ==
  LET shifts == create_shifts(days)
  IN CASE i = 1 -> add_basic_constraints(days, shifts, can_night)
       [] i = 2 -> add_unavail_req_constraints(days, shifts, unav_parsed, req_parsed)
       [] i = 3 -> add_24h_interval_constraints(shifts)
       [] i = 4 -> add_cross_week_interval_constraints(shifts, days, history)
       [] i = 5 -> add_weekly_participation_constraints(days, shifts, unav_parsed)

RECURSIVE UpTo(_)
\* The model made of the first i groups.
UpTo(i) == IF i = 0 THEN EmptyCons ELSE Merge(UpTo(i - 1), GroupConstraints(i))

\* The first group whose addition turns the model infeasible.
FirstFlip ==
  LET bad == {i \in 1..5 : ~Feasible([UpTo(i) EXCEPT !.exactly_one = 1..(3 * Len(days))],
                                      {}, 1, 3 * Len(days))}
  IN GroupOrder[CHOOSE i \in bad : \A j \in bad : i <= j]

\* The group of GroupOrder a relaxation of constraint_groups belongs to.
GroupOf(name) ==
  CASE name \in {"one_shift_per_day", "night_restrictions"} -> "basic"
    [] name = "24h_rest_interval" -> "rest_24h"
    [] name = "weekly_participation" -> "participation"

\* C23: on infeasibility the relaxation analysis reports as the likely cause
\* the first group, in the fixed order, whose addition turns the model from
\* feasible to infeasible.
C23_ReportsFirstFlip ==
  pc = "reported" =>
    {GroupOf(name) : name \in stats.diagnostic_report.summary} = {FirstFlip}

\* Every stage of the lexicographic solve, the tie-break stage included, was
\* solved to optimality and its value fixed.
AllStagesOptimal ==
  /\ lexicographic
  /\ idx = Len(stage_objectives)
  /\ slow = 0
  /\ "tiebreak" \in DOMAIN stage_values

\* C24: the staged optimization that ends with the tie-break stage admits
\* exactly one optimal assignment, so that every solve of the same inputs
\* returns the same schedule.
C24_UniqueOptimum ==
  AllStagesOptimal => Cardinality({f.a : f \in feas}) = 1

\* add_24h_interval_constraints has just returned.
After24h == pc = "cross_week" /\ workers = "valid"

\* Two shift instances overlap, or the later one starts less than
\* MIN_REST_HOURS after the earlier one ends.
TooClose(x, y) ==
  \/ (x.start < y.end /\ y.start < x.end)
  \/ (y.start >= x.end /\ y.start - x.end < MIN_REST_HOURS)
  \/ (x.start >= y.end /\ x.start - y.end < MIN_REST_HOURS)

\* C25: the sorted sweep with its 48 h cut-off forbids exactly the (worker,
\* shift, shift) pairs that a check of all pairs forbids: the pairs that
\* overlap or whose gap is below MIN_REST_HOURS, and no other pair; the
\* all-pairs loop of the diagnostics forbids the same pairs.
C25_SweepEqualsAllPairs ==
  After24h =>
    \A w \in Workers, i \in 1..(3 * Len(days)), j \in 1..(3 * Len(days)) :
       i < j =>
         /\ (<<w, i, j>> \in cons.not_both \/ <<w, j, i>> \in cons.not_both)
              <=> TooClose(create_shifts(days)[i], create_shifts(days)[j])
         /\ (<<w, i, j>> \in cons.not_both \/ <<w, j, i>> \in cons.not_both)
              <=> <<w, i, j>> \in relaxed_model("none", days, create_shifts(days),
                                                can_night, unav_parsed).not_both

\* The sweep has run on a window long enough for its cut-off to stop the
\* inner loop, and it has forbidden a pair of shifts that do not overlap.
C25_Witness ==
  /\ After24h
  /\ \E i \in 1..(3 * Len(days)), j \in 1..(3 * Len(days)) :
       create_shifts(days)[j].start - create_shifts(days)[i].end >= MAX_CHECK_HOURS
  /\ \E t \in cons.not_both :
       create_shifts(days)[t[3]].start >= create_shifts(days)[t[2]].end

\* C26: for any holiday set every shift instance belongs to exactly one of
\* the ten buckets of EQUITY_STATS, both when classified for the current
\* window and when classified from history; a night shift on a Saturday
\* holiday counts only as Saturday night.
C26_ExactlyOneBucket ==
  weekend_pc = "classified" =>
    /\ Cardinality(buckets.current) = 1
    /\ buckets.past \in buckets.current
    /\ \A ws \in roster :
         LET sh == create_shifts(full_weeks)[ws[2]]
         IN (sh.type = "N" /\ sh.day % 7 = 5 /\ sh.day \in holidays)
              => buckets.current = {"sat_n"}

\* The night shift of a Saturday holiday has been classified.
C26_Witness ==
  /\ weekend_pc = "classified"
  /\ 5 \in holidays
  /\ \E ws \in roster :
       /\ create_shifts(full_weeks)[ws[2]].type = "N"
       /\ create_shifts(full_weeks)[ws[2]].day = 5
  /\ buckets.past = "sat_n"

\* The historical shifts of the committed ISO weeks that lie in the window.
CommittedInWindow == {h \in history : h.date \in SeqToSet(all_days)}

\* C27: when a committed ISO week lies inside the window, no solved shift
\* can start less than MIN_REST_HOURS after, or end less than MIN_REST_HOURS
\* before, a historical shift of the same worker in that week: once the
\* builders that read history have run, the model forbids every such shift.
C27_RestAroundCommittedWeeks ==
  (CrossWeekActed /\ workers = "valid") =>
    \A h \in CommittedInWindow, s \in 1..(3 * Len(days)) :
       ~Rested(ShiftEntry(h.worker, s), h) => <<h.worker, s>> \in cons.eq0

C29_ScheduleComplete ==
  CallEnded =>
    /\ exc = None
    /\ \A d \in SeqToSet(all_days), t \in SeqToSet(SHIFT_TYPES) :
         InMonth(d) => Cardinality({w \in Workers : <<d, t, w>> \in schedule}) = 1

\* C30: generate does not change the stored manual credits: after any
\* number of generate calls they are what the credit-setting operations
\* last set, and percentage-based credits do not accumulate.
C30_GenerateKeepsCredits == equity_credits = configured

====
